---- MODULE Spec2Model ----
(***************************************************************************)
(* Model of the text-embeddings-inference front door:                      *)
(*   - router/src/lib.rs : PredictInput deserialization (shape normalizer) *)
(*   - lambda/src/main.rs: setup_infer (pipeline bootstrap), main, handler *)
(***************************************************************************)
EXTENDS Integers, Sequences, FiniteSets, TLC

(***************************************************************************)
(* Bounds of the model.                                                    *)
(***************************************************************************)
\* longest top-level JSON array of a payload
MaxTop == 3
\* longest inner JSON array (one batch element)
MaxInner == 3

\* sample texts; two distinct values make a swap or a drop visible
Text == {"a", "b"}

\* all sequences over S of length 0..n
SeqsUpTo(S, n) == UNION {[1..k -> S] : k \in 0..n}

(***************************************************************************)
(* JSON values handed to PredictInput::deserialize.                        *)
(***************************************************************************)
JStr(t) == [kind |-> "str", v |-> t]
JArr(es) == [kind |-> "arr", v |-> es]
JNum == [kind |-> "num"]

JTexts == {JStr(t) : t \in Text}
\* an inner array: a JSON list of texts
JTextLists == {JArr(es) : es \in SeqsUpTo(JTexts, MaxInner)}
\* a top-level element: a bare text or a list of texts
JElements == JTexts \cup JTextLists

(***************************************************************************)
(* router/src/lib.rs: Sequence, PredictInput, serde errors.                *)
(***************************************************************************)
Sequence_Single(s) == [tag |-> "Single", s |-> s]
Sequence_Pair(s1, s2) == [tag |-> "Pair", s1 |-> s1, s2 |-> s2]
PredictInput_Single(sq) == [tag |-> "Single", seq |-> sq]
PredictInput_Batch(b) == [tag |-> "Batch", batch |-> b]

Ok(x) == [ok |-> TRUE, val |-> x]
Err(e) == [ok |-> FALSE, err |-> e]
invalid_length(n) == [kind |-> "invalid_length", len |-> n]
invalid_type == [kind |-> "invalid_type"]

\* Vec::pop: the vector without its last element, and that element
PopRest(vec) == SubSeq(vec, 1, Len(vec) - 1)
PopLast(vec) == vec[Len(vec)]

\* the closure sequence_from_vec, with the pair members taken in swapped order
sequence_from_vec_swapped(value) ==
    CASE Len(value) = 1 -> Ok(Sequence_Single(PopLast(value)))
      [] Len(value) = 2 -> Ok(Sequence_Pair(PopLast(value), PopLast(PopRest(value))))
      [] OTHER -> Err(invalid_length(Len(value)))

\* the closure sequence_from_vec, accepting any non-empty vector
sequence_from_vec_lenient(value) ==
    CASE Len(value) = 0 -> Err(invalid_length(0))
      [] Len(value) = 1 -> Ok(Sequence_Single(PopLast(value)))
      [] OTHER -> Ok(Sequence_Pair(value[1], value[2]))

\* the closure sequence_from_vec of visit_seq
sequence_from_vec(value) ==
    CASE Len(value) = 1 -> Ok(Sequence_Single(PopLast(value)))
      [] Len(value) = 2 ->
           LET second == PopLast(value)
               first == PopLast(PopRest(value))
           IN Ok(Sequence_Pair(first, second))
      [] OTHER -> Err(invalid_length(Len(value)))

\* texts of a JSON list of texts, as a Vec<String>
VecOf(arr) == [i \in 1..Len(arr.v) |-> arr.v[i].v]

\* seq.next_element::<Internal>() on an existing element: the untagged enum
\* tries Single(String), then Multiple(Vec<String>)
next_element_Internal(e) ==
    CASE e.kind = "str" -> Ok([tag |-> "Single", value |-> e.v])
      [] e.kind = "arr" -> Ok([tag |-> "Multiple", value |-> VecOf(e)])
      [] OTHER -> Err(invalid_type)

\* what visit_seq returns, with the number of elements it took from seq
Visited(res, n) == [res |-> res, consumed |-> n]

\* the while loop of visit_seq: elems[i..] are still in seq, batch is built
RECURSIVE batch_loop(_, _, _)
batch_loop(elems, i, batch) ==
    IF i > Len(elems)
    THEN Visited(Ok(PredictInput_Batch(batch)), Len(elems))
    ELSE IF elems[i].kind # "arr"
         THEN Visited(Err(invalid_type), i)
         ELSE LET s == sequence_from_vec(VecOf(elems[i]))
              IN IF s.ok
                 THEN batch_loop(elems, i + 1, Append(batch, s.val))
                 ELSE Visited(Err(s.err), i)

\* the branch Internal::Single of visit_seq, building the pair from the wrong ends
visit_seq_single_swapped(elems) ==
    IF Len(elems) >= 2 /\ elems[2].kind # "str"
    THEN Visited(Err(invalid_type), 2)
    ELSE IF Len(elems) >= 3
         THEN IF elems[3].kind = "str"
              THEN Visited(Err(invalid_length(3)), 3)
              ELSE Visited(Err(invalid_type), 3)
         ELSE IF Len(elems) = 2
              THEN Visited(Ok(PredictInput_Single(Sequence_Pair(elems[2].v, elems[1].v))), 2)
              ELSE Visited(Ok(PredictInput_Single(Sequence_Single(elems[1].v))), 1)

\* the branch Internal::Single of visit_seq, without the third-element check
visit_seq_single_unchecked(elems) ==
    IF Len(elems) >= 2 /\ elems[2].kind # "str"
    THEN Visited(Err(invalid_type), 2)
    ELSE IF Len(elems) >= 2
         THEN Visited(Ok(PredictInput_Single(Sequence_Pair(elems[1].v, elems[2].v))), 2)
         ELSE Visited(Ok(PredictInput_Single(Sequence_Single(elems[1].v))), 1)

\* the branch Internal::Single of visit_seq: the input is not a batch
visit_seq_single(elems) ==
    IF Len(elems) >= 2 /\ elems[2].kind # "str"
    THEN Visited(Err(invalid_type), 2)
    ELSE IF Len(elems) >= 3
         THEN IF elems[3].kind = "str"
              THEN Visited(Err(invalid_length(3)), 3)
              ELSE Visited(Err(invalid_type), 3)
         ELSE IF Len(elems) = 2
              THEN Visited(Ok(PredictInput_Single(Sequence_Pair(elems[1].v, elems[2].v))), 2)
              ELSE Visited(Ok(PredictInput_Single(Sequence_Single(elems[1].v))), 1)

\* PredictInputVisitor::visit_seq
visit_seq(elems) ==
    IF Len(elems) = 0
    THEN Visited(Err(invalid_length(0)), 0)
    ELSE LET first == next_element_Internal(elems[1])
         IN IF ~first.ok
            THEN Visited(Err(first.err), 1)
            ELSE IF first.val.tag = "Single"
                 THEN visit_seq_single(elems)
                 ELSE LET s == sequence_from_vec(first.val.value)
                      IN IF s.ok
                         THEN batch_loop(elems, 2, <<s.val>>)
                         ELSE Visited(Err(s.err), 1)

\* PredictInputVisitor::visit_str
visit_str(v) == Visited(Ok(PredictInput_Single(Sequence_Single(v))), 0)

\* PredictInput::deserialize: deserialize_any dispatches on the JSON value
deserialize(json) ==
    CASE json.kind = "str" -> visit_str(json.v)
      [] json.kind = "arr" -> visit_seq(json.v)
      [] OTHER -> Visited(Err(invalid_type), 0)

(***************************************************************************)
(* lambda/src/main.rs: ModelConfig and the tokenizer's pre-tokenizer.      *)
(***************************************************************************)
\* largest small positional capacity of a sample descriptor
MaxCapacity == 3
\* largest pad_token_id of a sample descriptor
MaxPad == 2
\* longest top-level pre-tokenizer Sequence
MaxMembers == 2
\* longest Sequence nested inside a Sequence
MaxNestedMembers == 1
\* how often the patch is applied to one tokenizer
MaxPatches == 2

None == [some |-> FALSE]
Some(x) == [some |-> TRUE, v |-> x]

ModelTypes == {"xlm-roberta", "camembert", "roberta", "bert"}
Capacities == (0..MaxCapacity) \cup {512, 514}
\* the fields of ModelConfig that setup_infer reads
ModelConfig == [model_type : ModelTypes,
                max_position_embeddings : Capacities,
                pad_token_id : 0..MaxPad]

\* tokenizers::PrependScheme
PrependScheme == {"First", "Never", "Always"}
Metaspace(scheme) == [kind |-> "Metaspace", prepend_scheme |-> scheme]
SequencePT(members) == [kind |-> "Sequence", pretokenizers |-> members]
ByteLevel == [kind |-> "ByteLevel"]
NoPreTokenizer == [kind |-> "None"]

LeafPreTokenizers == {Metaspace(s) : s \in PrependScheme} \cup {ByteLevel}
NestedSequences == {SequencePT(ms) : ms \in SeqsUpTo(LeafPreTokenizers, MaxNestedMembers)}
MemberPreTokenizers == LeafPreTokenizers \cup NestedSequences
\* what tokenizer.get_pre_tokenizer() can return for a tokenizer.json
PreTokenizers ==
    {NoPreTokenizer} \cup LeafPreTokenizers
        \cup {SequencePT(ms) : ms \in SeqsUpTo(MemberPreTokenizers, MaxMembers)}
\* the pre-tokenizers the bootstrap run is explored with
SetupPreTokenizers ==
    {NoPreTokenizer} \cup LeafPreTokenizers
        \cup {SequencePT(ms) : ms \in SeqsUpTo(LeafPreTokenizers, 1)}

Tokenizer(pt, padding) == [pre_tokenizer |-> pt, padding |-> padding]
NoTokenizer == Tokenizer(NoPreTokenizer, "unloaded")

\* m.set_prepend_scheme(PrependScheme::First) on a member, left undone
set_first_skipped(pt) == pt

\* the loop body over s.get_pre_tokenizers_mut(): only a Metaspace member changes
set_first_if_metaspace(pt) ==
    IF pt.kind = "Metaspace" THEN Metaspace("First") ELSE pt

\* the pre-tokenizer patch of setup_infer (tokenizers PR 1357)
patch_pre_tokenizer(pt) ==
    CASE pt.kind = "Metaspace" -> Metaspace("First")
      [] pt.kind = "Sequence" ->
           SequencePT([i \in 1..Len(pt.pretokenizers) |->
                          set_first_if_metaspace(pt.pretokenizers[i])])
      [] OTHER -> pt

\* the patch, then tokenizer.with_padding(None)
patch_tokenizer(tok) == Tokenizer(patch_pre_tokenizer(tok.pre_tokenizer), "none")

\* a usize holding base * 2^64 + off for a small off (base is 1 after a wrap)
Usize(n) == [base |-> 0, off |-> n]
\* usize subtraction as a build without overflow checks computes it
wrapping_sub(a, b) == IF a >= b THEN Usize(a - b) ELSE [base |-> 1, off |-> a - b]

\* Position IDs offset. Used for Roberta and camembert.
position_offset_of(cfg) ==
    IF cfg.model_type = "xlm-roberta" \/ cfg.model_type = "camembert"
           \/ cfg.model_type = "roberta"
    THEN cfg.pad_token_id + 1
    ELSE 0

NoLimits == [position_offset |-> 0, max_input_length |-> Usize(0)]

\* let max_concurrent_requests: usize = 512
max_concurrent_requests == 512

\* ? on the backend health probe, with the outcome ignored
after_health_unchecked(probe_ok) == "queue"

\* ? on backend.health(): continue, or leave setup_infer with the error
after_health(probe_ok) == IF probe_ok THEN "queue" ELSE "exited"

(***************************************************************************)
(* lambda/src/main.rs: the handler's requests.                             *)
(***************************************************************************)
\* concurrent handler invocations followed individually
NumRequests == 2
\* longest inputs list of a followed request
MaxInputs == 2

Requests == 1..NumRequests
\* Request.inputs: Vec<String>
Inputs == SeqsUpTo(Text, MaxInputs)
\* the inputs of the requests that compete for permits
FewInputs == SeqsUpTo({"a"}, 1)

\* response.results of infer.embed for one text
Embedding(t) == [embedding_of |-> t]

IdleRequest == [pc |-> "idle", inputs |-> <<>>, permit |-> FALSE, response |-> <<>>,
                error |-> "none"]

\* infer.try_acquire_permit(): succeeds exactly when a permit is free, never waits
try_acquire_permit(free) == free > 0

\* dropping the permit held by a request returns it to the semaphore
drop_permit(free, held) == IF held THEN free + 1 ELSE free

\* ? on try_acquire_permit, with the outcome ignored
after_permit_unchecked(acquired) == "embed"

\* ? on try_acquire_permit: go on to embed, or return the error
after_permit(acquired) == IF acquired THEN "embed" ELSE "failed"

\* Ok(EmbedResponse(vec![response.results]))
embed_response(results) == <<results>>

(***************************************************************************)
(* State.                                                                  *)
(***************************************************************************)
VARIABLES
    payload,          \* normalizer: the JSON value of inputs
    norm_pc,          \* normalizer: "request" or "done"
    result,           \* normalizer: what deserialize returned
    pc,               \* position of main / setup_infer
    overflow_checks,  \* whether the build checks integer overflow
    model_root,       \* download_artifacts' directory
    config_text,      \* whether config.json was read
    config,           \* the parsed ModelConfig
    tokenizer_file,   \* the tokenizer as tokenizer.json holds it
    tokenizer,        \* the tokenizer being prepared
    patches,          \* how often the pre-tokenizer patch was applied
    limits,           \* position_offset and max_input_length
    tokenization,     \* the Tokenization service
    backend,          \* whether the Backend was constructed
    health,           \* outcome of backend.health()
    infer,            \* the Infer engine
    reported_health,  \* what println!("health: ...") printed
    error,            \* the error main ends with
    permits,          \* free permits of the engine's semaphore
    others,           \* permits held by invocations not followed individually
    req               \* the followed handler invocations

normVars == <<payload, norm_pc, result>>
setupVars == <<pc, overflow_checks, model_root, config_text, config, tokenizer_file,
               tokenizer, patches, limits, tokenization, backend, health, infer,
               reported_health, error>>
serveVars == <<permits, others, req>>
vars == <<normVars, setupVars, serveVars>>

Pending == Visited(Err([kind |-> "pending"]), 0)

NormIdle == payload = JNum /\ norm_pc = "request" /\ result = Pending
ServeIdle == permits = 0 /\ others = 0 /\ req = [r \in Requests |-> IdleRequest]

\* the process before main runs
SetupStart ==
    /\ pc = "download"
    /\ model_root = None
    /\ config_text = FALSE
    /\ config = None
    /\ tokenizer_file = NoTokenizer
    /\ tokenizer = NoTokenizer
    /\ patches = 0
    /\ limits = NoLimits
    /\ tokenization = None
    /\ backend = FALSE
    /\ health = "unprobed"
    /\ infer = None
    /\ reported_health = "none"
    /\ error = "none"

(***************************************************************************)
(* The shape normalizer as a step: a request's inputs is deserialized.   *)
(***************************************************************************)
Deserialize ==
    /\ norm_pc = "request"
    /\ result' = deserialize(payload)
    /\ norm_pc' = "done"
    /\ UNCHANGED <<payload, setupVars, serveVars>>

(***************************************************************************)
(* main and setup_infer, one action per step.                              *)
(***************************************************************************)
\* download_artifacts(&api_repo).await.context(...)?
DownloadArtifacts ==
    /\ pc = "download"
    /\ \E ok \in BOOLEAN :
          IF ok
          THEN /\ model_root' = Some("model_root")
               /\ pc' = "read_config"
               /\ error' = error
          ELSE /\ model_root' = model_root
               /\ pc' = "exited"
               /\ error' = "Could not download model artifacts"
    /\ UNCHANGED <<overflow_checks, config_text, config, tokenizer_file, tokenizer,
                   patches, limits, tokenization, backend, health, infer,
                   reported_health, normVars, serveVars>>

\* fs::read_to_string(config_path).context("config.json not found")?
ReadConfig ==
    /\ pc = "read_config"
    /\ \E ok \in BOOLEAN :
          IF ok
          THEN /\ config_text' = TRUE
               /\ pc' = "parse_config"
               /\ error' = error
          ELSE /\ config_text' = config_text
               /\ pc' = "exited"
               /\ error' = "config.json not found"
    /\ UNCHANGED <<overflow_checks, model_root, config, tokenizer_file, tokenizer,
                   patches, limits, tokenization, backend, health, infer,
                   reported_health, normVars, serveVars>>

\* serde_json::from_str(&config).context("Failed to parse config.json")?
ParseConfig ==
    /\ pc = "parse_config"
    /\ \E parsed \in {None} \cup {Some(c) : c \in ModelConfig} :
          IF parsed.some
          THEN /\ config' = parsed
               /\ pc' = "load_tokenizer"
               /\ error' = error
          ELSE /\ config' = config
               /\ pc' = "exited"
               /\ error' = "Failed to parse config.json"
    /\ UNCHANGED <<overflow_checks, model_root, config_text, tokenizer_file, tokenizer,
                   patches, limits, tokenization, backend, health, infer,
                   reported_health, normVars, serveVars>>

\* Tokenizer::from_file(tokenizer_path).expect(...): a failure panics
LoadTokenizer ==
    /\ pc = "load_tokenizer"
    /\ \/ /\ pc' = "panicked"
          /\ error' = "tokenizer.json not found"
          /\ UNCHANGED <<tokenizer_file, tokenizer>>
       \/ \E pt \in SetupPreTokenizers, padding \in {"none", "some"} :
             /\ tokenizer_file' = Tokenizer(pt, padding)
             /\ tokenizer' = Tokenizer(pt, padding)
             /\ pc' = "patch_tokenizer"
             /\ error' = error
    /\ UNCHANGED <<overflow_checks, model_root, config_text, config, patches, limits,
                   tokenization, backend, health, infer, reported_health,
                   normVars, serveVars>>

\* the pre-tokenizer patch and tokenizer.with_padding(None), leaving for next_pc
ApplyPatch(next_pc) ==
    /\ pc = "patch_tokenizer"
    /\ tokenizer' = patch_tokenizer(tokenizer)
    /\ patches' = patches + 1
    /\ pc' = next_pc
    /\ UNCHANGED <<overflow_checks, model_root, config_text, config, tokenizer_file,
                   limits, tokenization, backend, health, infer, reported_health,
                   error, normVars, serveVars>>

\* setup_infer patches the loaded tokenizer once
PatchTokenizer == ApplyPatch("resolve_config")

\* the same patch applied again to the tokenizer it produced
Repatch == patches < MaxPatches /\ ApplyPatch("patch_tokenizer")

\* position_offset and max_input_length; the usize subtraction panics when the
\* build checks overflow and wraps when it does not
ResolveConfig ==
    /\ pc = "resolve_config"
    /\ LET position_offset == position_offset_of(config.v)
           capacity == config.v.max_position_embeddings
       IN IF capacity < position_offset /\ overflow_checks
          THEN /\ pc' = "panicked"
               /\ error' = "attempt to subtract with overflow"
               /\ limits' = limits
          ELSE /\ limits' = [position_offset |-> position_offset,
                             max_input_length |-> wrapping_sub(capacity, position_offset)]
               /\ pc' = "tokenization"
               /\ error' = error
    /\ UNCHANGED <<overflow_checks, model_root, config_text, config, tokenizer_file,
                   tokenizer, patches, tokenization, backend, health, infer,
                   reported_health, normVars, serveVars>>

\* Tokenization::new(tokenization_workers, tokenizer, max_input_length, position_offset)
NewTokenization ==
    /\ pc = "tokenization"
    /\ tokenization' = Some([tokenizer |-> tokenizer,
                             max_input_length |-> limits.max_input_length,
                             position_offset |-> limits.position_offset])
    /\ pc' = "backend"
    /\ UNCHANGED <<overflow_checks, model_root, config_text, config, tokenizer_file,
                   tokenizer, patches, limits, backend, health, infer,
                   reported_health, error, normVars, serveVars>>

\* Backend::new(...).context("Could not create backend")?
NewBackend ==
    /\ pc = "backend"
    /\ \E ok \in BOOLEAN :
          IF ok
          THEN /\ backend' = TRUE
               /\ pc' = "health"
               /\ error' = error
          ELSE /\ backend' = backend
               /\ pc' = "exited"
               /\ error' = "Could not create backend"
    /\ UNCHANGED <<overflow_checks, model_root, config_text, config, tokenizer_file,
                   tokenizer, patches, limits, tokenization, health, infer,
                   reported_health, normVars, serveVars>>

\* backend.health().await.context("Model backend is not healthy")?
HealthProbe ==
    /\ pc = "health"
    /\ \E ok \in BOOLEAN :
          /\ health' = IF ok THEN "ok" ELSE "failed"
          /\ pc' = after_health(ok)
          /\ error' = IF after_health(ok) = "exited"
                      THEN "Model backend is not healthy" ELSE error
    /\ UNCHANGED <<overflow_checks, model_root, config_text, config, tokenizer_file,
                   tokenizer, patches, limits, tokenization, backend, infer,
                   reported_health, normVars, serveVars>>

\* Queue::new(...) and Infer::new(tokenization, queue, max_concurrent_requests, backend)
NewInfer ==
    /\ pc = "queue"
    /\ infer' = Some([tokenization |-> tokenization.v,
                      max_concurrent_requests |-> max_concurrent_requests])
    /\ permits' = max_concurrent_requests
    /\ pc' = "report_health"
    /\ UNCHANGED <<overflow_checks, model_root, config_text, config, tokenizer_file,
                   tokenizer, patches, limits, tokenization, backend, health,
                   reported_health, error, normVars, others, req>>

\* println!("health: {}", infer.health().await); return Ok(infer)
ReportHealth ==
    /\ pc = "report_health"
    /\ \E h \in {"true", "false"} : reported_health' = h
    /\ pc' = "ready"
    /\ UNCHANGED <<overflow_checks, model_root, config_text, config, tokenizer_file,
                   tokenizer, patches, limits, tokenization, backend, health, infer,
                   error, normVars, serveVars>>

\* main: lambda_runtime::run(service_fn(...)) once setup_infer returned Ok
RunService ==
    /\ pc = "ready"
    /\ pc' = "serving"
    /\ UNCHANGED <<overflow_checks, model_root, config_text, config, tokenizer_file,
                   tokenizer, patches, limits, tokenization, backend, health, infer,
                   reported_health, error, normVars, serveVars>>

(***************************************************************************)
(* handler, one action per step of an invocation.                          *)
(***************************************************************************)
\* lambda_runtime hands an event to handler(&shared_infer, event)
Invoke(r, inputs) ==
    /\ pc = "serving"
    /\ req[r].pc = "idle"
    /\ req' = [req EXCEPT ![r] = [IdleRequest EXCEPT !.pc = "called", !.inputs = inputs]]
    /\ UNCHANGED <<permits, others, normVars, setupVars>>

\* inputs[0].clone() panics on an empty list; then try_acquire_permit takes a
\* free permit or fails at once
HandlerAcquire(r) ==
    /\ req[r].pc = "called"
    /\ IF Len(req[r].inputs) = 0
       THEN /\ req' = [req EXCEPT ![r].pc = "panicked",
                                  ![r].error = "index out of bounds"]
            /\ permits' = permits
       ELSE LET acquired == try_acquire_permit(permits)
                next == after_permit(acquired)
            IN /\ permits' = IF acquired THEN permits - 1 ELSE permits
               /\ req' = [req EXCEPT ![r].pc = next,
                                     ![r].permit = acquired,
                                     ![r].error = IF next = "failed"
                                                  THEN "Overloaded" ELSE "none"]
    /\ UNCHANGED <<others, normVars, setupVars>>

\* infer.embed(input, truncate, normalize, permit).await? resolves; the permit
\* moved into embed is dropped either way
EmbedDone(r) ==
    /\ req[r].pc = "embed"
    /\ permits' = drop_permit(permits, req[r].permit)
    /\ \E ok \in BOOLEAN :
          IF ok
          THEN req' = [req EXCEPT ![r].pc = "ok",
                                  ![r].permit = FALSE,
                                  ![r].response =
                                      embed_response(Embedding(req[r].inputs[1]))]
          ELSE req' = [req EXCEPT ![r].pc = "failed",
                                  ![r].permit = FALSE,
                                  ![r].error = "Backend"]
    /\ UNCHANGED <<others, normVars, setupVars>>

\* another concurrent invocation obtains a permit
OtherAcquire ==
    /\ pc = "serving"
    /\ try_acquire_permit(permits)
    /\ permits' = permits - 1
    /\ others' = others + 1
    /\ UNCHANGED <<req, normVars, setupVars>>

\* another concurrent invocation finishes and drops its permit
OtherRelease ==
    /\ others > 0
    /\ permits' = drop_permit(permits, TRUE)
    /\ others' = others - 1
    /\ UNCHANGED <<req, normVars, setupVars>>

(***************************************************************************)
(* Specifications.                                                         *)
(***************************************************************************)
\* the bootstrap: main from process start until it serves or ends
Init == SetupStart /\ overflow_checks \in BOOLEAN /\ NormIdle /\ ServeIdle

Next ==
    \/ DownloadArtifacts
    \/ ReadConfig
    \/ ParseConfig
    \/ LoadTokenizer
    \/ PatchTokenizer
    \/ ResolveConfig
    \/ NewTokenization
    \/ NewBackend
    \/ HealthProbe
    \/ NewInfer
    \/ ReportHealth
    \/ RunService

Spec == Init /\ [][Next]_vars

\* the shape normalizer applied to every payload of the bounded grammar: a bare
\* text, a number, or a list of up to MaxTop texts and lists of texts
InitNorm ==
    /\ \/ payload \in JTexts \cup {JNum}
       \/ \E n \in 0..MaxTop : \E es \in [1..n -> JElements] : payload = JArr(es)
    /\ norm_pc = "request"
    /\ result = Pending
    /\ SetupStart /\ overflow_checks = FALSE /\ ServeIdle

NextNorm == Deserialize

SpecNorm == InitNorm /\ [][NextNorm]_vars

\* setup_infer with tokenizer.json loaded, for every bounded pre-tokenizer
TokenizerLoaded(tok) ==
    /\ pc = "patch_tokenizer"
    /\ model_root = Some("model_root")
    /\ config_text = TRUE
    /\ config = Some([model_type |-> "roberta", max_position_embeddings |-> 514,
                      pad_token_id |-> 1])
    /\ tokenizer_file = tok
    /\ tokenizer = tok
    /\ patches = 0
    /\ limits = NoLimits
    /\ tokenization = None
    /\ backend = FALSE
    /\ health = "unprobed"
    /\ infer = None
    /\ reported_health = "none"
    /\ error = "none"

InitPatch ==
    /\ \E pt \in PreTokenizers, padding \in {"none", "some"} :
          TokenizerLoaded(Tokenizer(pt, padding))
    /\ overflow_checks = FALSE
    /\ NormIdle /\ ServeIdle

NextPatch == Repatch

SpecPatch == InitPatch /\ [][NextPatch]_vars

\* main serving: setup_infer returned the engine for the configured model
ServingSetup ==
    /\ pc = "serving"
    /\ overflow_checks = FALSE
    /\ model_root = Some("model_root")
    /\ config_text = TRUE
    /\ config = Some([model_type |-> "roberta", max_position_embeddings |-> 514,
                      pad_token_id |-> 1])
    /\ tokenizer_file = Tokenizer(ByteLevel, "none")
    /\ tokenizer = Tokenizer(ByteLevel, "none")
    /\ patches = 1
    /\ limits = [position_offset |-> 2, max_input_length |-> Usize(512)]
    /\ tokenization = Some([tokenizer |-> Tokenizer(ByteLevel, "none"),
                            max_input_length |-> Usize(512),
                            position_offset |-> 2])
    /\ backend = TRUE
    /\ health = "ok"
    /\ infer = Some([tokenization |-> tokenization.v,
                     max_concurrent_requests |-> max_concurrent_requests])
    /\ reported_health = "true"
    /\ error = "none"

Serving ==
    /\ ServingSetup
    /\ permits = max_concurrent_requests
    /\ others = 0
    /\ req = [r \in Requests |-> IdleRequest]

InitServe == Serving /\ NormIdle

\* requests with every bounded inputs list
NextServe ==
    \/ \E r \in Requests, inputs \in Inputs : Invoke(r, inputs)
    \/ \E r \in Requests : HandlerAcquire(r)
    \/ \E r \in Requests : EmbedDone(r)

SpecServe == InitServe /\ [][NextServe]_vars

\* requests competing for permits with the other concurrent invocations
NextOverload ==
    \/ \E r \in Requests, inputs \in FewInputs : Invoke(r, inputs)
    \/ \E r \in Requests : HandlerAcquire(r)
    \/ \E r \in Requests : EmbedDone(r)
    \/ OtherAcquire
    \/ OtherRelease

SpecOverload == InitServe /\ [][NextOverload]_vars

(***************************************************************************)
(* Properties of the bootstrap (Spec).                                     *)
(***************************************************************************)
TokenizerIsLoaded == tokenizer.padding # "unloaded"
StartupEnded == pc \in {"exited", "panicked"}
EngineReturned == pc \in {"ready", "serving"}

\* each step of setup_infer has run only after the steps before it succeeded
StepsInOrder ==
    /\ config_text => model_root.some
    /\ config.some => config_text
    /\ TokenizerIsLoaded => config.some
    /\ backend => TokenizerIsLoaded /\ tokenization.some
    /\ health # "unprobed" => backend
    /\ infer.some => health = "ok"

\* the engine is returned, and main serves, only with every step succeeded
ReadyOnlyAfterSuccess ==
    (EngineReturned \/ infer.some) =>
        /\ model_root.some /\ config_text /\ config.some /\ TokenizerIsLoaded
        /\ backend /\ health = "ok" /\ error = "none"
        /\ (EngineReturned => infer.some)

\* a failed step ends startup with an error and without an engine
FailureEndsStartup ==
    /\ error # "none" <=> StartupEnded
    /\ StartupEnded => ~infer.some
    /\ health = "failed" => StartupEnded /\ error = "Model backend is not healthy"

\* C1: setup_infer returns the engine only if download, descriptor read and
\* parse, tokenizer load, backend construction and the backend health probe
\* each succeeded, in that order; a failed step ends startup without an engine
\* and for good, so main never serves, in particular after a failed probe.
C1_ReadyOnlyIfAllStepsSucceeded ==
    /\ [](StepsInOrder /\ ReadyOnlyAfterSuccess /\ FailureEndsStartup)
    /\ [][StartupEnded => pc' = pc /\ infer' = infer]_vars

\* C1 witness: main serves the configured model after a successful probe
C1_Witness_Serving == ServingSetup /\ permits = max_concurrent_requests

(***************************************************************************)
(* Properties of the handler (SpecOverload, SpecServe).                    *)
(***************************************************************************)
\* requests admitted into the inference path: inside infer.embed
Admitted == others + Cardinality({r \in Requests : req[r].pc = "embed"})

\* a request whose acquisition step is pending and whose inputs are not empty
AtAcquire(r) == req[r].pc = "called" /\ Len(req[r].inputs) > 0

\* C2: at most max_concurrent_requests requests are inside the inference path;
\* a request that finds no free permit does not wait (its step is enabled) and
\* ends with the overload error, while one that finds a permit is admitted.
C2_AdmissionBoundedFailFast ==
    /\ [](/\ Admitted <= max_concurrent_requests
          /\ \A r \in Requests : req[r].pc = "called" => ENABLED HandlerAcquire(r))
    /\ [][\A r \in Requests :
            (AtAcquire(r) /\ req'[r].pc # "called") =>
                IF Admitted = max_concurrent_requests
                THEN req'[r].pc = "failed" /\ req'[r].error = "Overloaded"
                     /\ permits' = permits
                ELSE req'[r].pc = "embed"]_vars

\* C2 witness: every permit is held and a further request failed with Overloaded
C2_Witness_Overloaded ==
    /\ Admitted = max_concurrent_requests
    /\ \E r \in Requests : req[r].pc = "failed" /\ req[r].error = "Overloaded"
    /\ \E r \in Requests : req[r].pc = "embed"

\* C3: a request with N inputs is answered with exactly N result vectors, the
\* i-th being the result for the i-th input. (The handler embeds inputs[0] only.)
C3_OneVectorPerInput ==
    \A r \in Requests :
        req[r].pc = "ok" =>
            /\ Len(req[r].response) = Len(req[r].inputs)
            /\ \A i \in 1..Len(req[r].inputs) :
                  i <= Len(req[r].response)
                      => req[r].response[i] = Embedding(req[r].inputs[i])

(***************************************************************************)
(* Properties of the shape normalizer (SpecNorm).                          *)
(***************************************************************************)
Normalized == norm_pc = "done"
IsArray == payload.kind = "arr"
Top == payload.v
IsText(e) == e.kind = "str"
IsTextList(e) == e.kind = "arr"

\* the Sequence sq is Single(a) / Pair(a, b)
IsSingleOf(sq, a) == sq.tag = "Single" /\ sq.s = a
IsPairOf(sq, a, b) == sq.tag = "Pair" /\ sq.s1 = a /\ sq.s2 = b

YieldsSingle(a) ==
    result.res.ok /\ result.res.val.tag = "Single" /\ IsSingleOf(result.res.val.seq, a)
YieldsPair(a, b) ==
    result.res.ok /\ result.res.val.tag = "Single" /\ IsPairOf(result.res.val.seq, a, b)
FailsWithArity == ~result.res.ok /\ result.res.err.kind = "invalid_length"

\* C4: the bare text a yields Single(a), the list [a] yields Single(a), and the
\* list [a, b] yields Pair(a, b) with a first and b second.
C4_TextAndShortListShapes ==
    Normalized =>
        /\ payload.kind = "str" => YieldsSingle(payload.v)
        /\ (IsArray /\ Len(Top) = 1 /\ IsText(Top[1])) => YieldsSingle(Top[1].v)
        /\ (IsArray /\ Len(Top) = 2 /\ IsText(Top[1]) /\ IsText(Top[2]))
               => YieldsPair(Top[1].v, Top[2].v)

\* C4 witness: a list of two different texts was normalized to their pair
C4_Witness_Pair ==
    /\ Normalized /\ IsArray /\ Len(Top) = 2
    /\ IsText(Top[1]) /\ IsText(Top[2]) /\ Top[1].v # Top[2].v
    /\ YieldsPair(Top[1].v, Top[2].v)

\* every top-level element is a list of one or two texts, and there is one
WellFormedBatch ==
    /\ IsArray /\ Len(Top) >= 1
    /\ \A i \in 1..Len(Top) : IsTextList(Top[i]) /\ Len(Top[i].v) \in {1, 2}

\* the Sequence sq is what the list of texts e stands for
SequenceOfElement(sq, e) ==
    IF Len(e.v) = 1
    THEN IsSingleOf(sq, e.v[1].v)
    ELSE IsPairOf(sq, e.v[1].v, e.v[2].v)

\* C5: when every top-level element is a list of one or two texts, the result
\* is a Batch with one sequence per element, in order: Single(x) for [x],
\* Pair(x, y) for [x, y]; nothing is dropped, duplicated or reordered.
C5_BatchKeepsEveryElementInOrder ==
    (Normalized /\ WellFormedBatch) =>
        /\ result.res.ok
        /\ result.res.val.tag = "Batch"
        /\ Len(result.res.val.batch) = Len(Top)
        /\ \A i \in 1..Len(Top) :
              i <= Len(result.res.val.batch)
                  => SequenceOfElement(result.res.val.batch[i], Top[i])

\* C5 witness: a mixed batch [[x], [y, z], [w]] with y # z was normalized
C5_Witness_MixedBatch ==
    /\ Normalized /\ WellFormedBatch /\ Len(Top) = 3
    /\ Len(Top[1].v) = 1 /\ Len(Top[2].v) = 2 /\ Len(Top[3].v) = 1
    /\ Top[2].v[1] # Top[2].v[2] /\ Top[1].v[1] # Top[3].v[1]
    /\ result.res.ok

\* C6: the empty top-level list, and a top-level list of three or more bare
\* texts, fail with an invalid-length error; no input is produced.
C6_EmptyAndLongTextListsRejected ==
    (Normalized /\ IsArray) =>
        /\ Len(Top) = 0 => FailsWithArity /\ result.res.err.len = 0
        /\ (Len(Top) >= 3 /\ \A i \in 1..Len(Top) : IsText(Top[i])) => FailsWithArity

\* C6 witness: a list of three bare texts was rejected for its length
C6_Witness_ThreeTexts ==
    /\ Normalized /\ IsArray /\ Len(Top) = 3
    /\ \A i \in 1..Len(Top) : IsText(Top[i])
    /\ FailsWithArity

\* the payload is a batch: its first top-level element is a list of texts
BatchPayload == IsArray /\ Len(Top) >= 1 /\ IsTextList(Top[1])
\* element i is a list of texts of a length other than 1 or 2
BadArity(i) == IsTextList(Top[i]) /\ Len(Top[i].v) \notin {1, 2}
HasBadArity == \E i \in 1..Len(Top) : BadArity(i)
FirstBadArity == CHOOSE i \in 1..Len(Top) : BadArity(i) /\ \A j \in 1..(i - 1) : ~BadArity(j)
\* a bare text stands before position i of the batch
TextBefore(i) == \E j \in 1..(i - 1) : IsText(Top[j])
FirstText == CHOOSE i \in 1..Len(Top) : IsText(Top[i]) /\ \A j \in 1..(i - 1) : ~IsText(Top[j])

\* C7 as claimed: in a batch payload, an element that is a list of texts of a
\* length other than 1 or 2 makes normalization fail with an invalid-length
\* error at the first such element.
C7_Claimed_ArityErrorAtFirstBadList ==
    (Normalized /\ BatchPayload /\ HasBadArity) =>
        /\ FailsWithArity
        /\ result.consumed = FirstBadArity
        /\ result.res.err.len = Len(Top[FirstBadArity].v)

\* C7 amended: in a batch payload with such an element normalization fails
\* and returns no Batch; the error is the invalid-length error of the first
\* such element when only lists of texts stand before it, and the
\* invalid-type error of the first bare text otherwise.
C7_FailsAtFirstOffendingElement ==
    (Normalized /\ BatchPayload /\ HasBadArity) =>
        /\ ~result.res.ok
        /\ IF TextBefore(FirstBadArity)
           THEN /\ result.res.err.kind = "invalid_type"
                /\ result.consumed = FirstText
           ELSE /\ FailsWithArity
                /\ result.consumed = FirstBadArity
                /\ result.res.err.len = Len(Top[FirstBadArity].v)

\* C7 witness: [[x], [y, z, w]] was rejected because of its second element
C7_Witness_SecondElementTooLong ==
    /\ Normalized /\ BatchPayload /\ Len(Top) = 2
    /\ Len(Top[1].v) = 1 /\ IsTextList(Top[2]) /\ Len(Top[2].v) = 3
    /\ FailsWithArity /\ result.consumed = 2 /\ result.res.err.len = 3

(***************************************************************************)
(* Properties of config resolution (Spec).                                 *)
(***************************************************************************)
\* the architectures the specification lists as reserving leading position ids
OffsetArchitectures == {"xlm-roberta", "camembert", "roberta"}
\* the positional offset the specification prescribes for a descriptor
PrescribedOffset(cfg) ==
    IF cfg.model_type \in OffsetArchitectures THEN cfg.pad_token_id + 1 ELSE 0
\* config resolution went through and startup moved on to the tokenization service
ResolutionPassed ==
    pc \in {"tokenization", "backend", "health", "queue", "report_health", "ready",
            "serving"} \/ tokenization.some

\* C8: with max_position_embeddings <= positional offset, config resolution
\* fails and startup does not go on to build the tokenization service.
\* (The code has no such check: it goes on with 0 or with a wrapped value.)
C8_NonPositiveLengthRejected ==
    (config.some
        /\ config.v.max_position_embeddings <= PrescribedOffset(config.v))
        => ~ResolutionPassed

\* C9: config resolution sets positional_offset to pad_token_id + 1 exactly for
\* the allow-listed model types and to 0 otherwise, and max_input_length to
\* max_position_embeddings minus positional_offset. (The usize subtraction
\* wraps when the capacity is below the offset.)
C9_OffsetAndLengthDerived ==
    ResolutionPassed =>
        /\ limits.position_offset = PrescribedOffset(config.v)
        /\ limits.max_input_length
               = Usize(config.v.max_position_embeddings - limits.position_offset)

(***************************************************************************)
(* Properties of the tokenizer patch (SpecPatch).                          *)
(***************************************************************************)
Patched == patches >= 1
Loaded == tokenizer_file.pre_tokenizer
Active == tokenizer.pre_tokenizer
IsFirst(pt) == pt.kind = "Metaspace" /\ pt.prepend_scheme = "First"

\* every Metaspace in pt, at any depth of Sequence nesting, prepends First
RECURSIVE AllMetaspaceFirst(_)
AllMetaspaceFirst(pt) ==
    CASE pt.kind = "Metaspace" -> pt.prepend_scheme = "First"
      [] pt.kind = "Sequence" ->
           \A i \in 1..Len(pt.pretokenizers) : AllMetaspaceFirst(pt.pretokenizers[i])
      [] OTHER -> TRUE

\* some Metaspace in pt, at any depth, does not prepend First
HasMetaspaceNotFirst(pt) == ~AllMetaspaceFirst(pt)

\* the patched member p stands where the loaded member l stood, with l's kind,
\* and is l itself unless l is a Metaspace
MemberKept(p, l) == p.kind = l.kind /\ (l.kind # "Metaspace" => p = l)

\* kinds and positions are those of the loaded pre-tokenizer
ShapeKept ==
    /\ Active.kind = Loaded.kind
    /\ Active.kind = "Sequence" =>
          /\ Len(Active.pretokenizers) = Len(Loaded.pretokenizers)
          /\ \A i \in 1..Len(Loaded.pretokenizers) :
                i <= Len(Active.pretokenizers)
                    => MemberKept(Active.pretokenizers[i], Loaded.pretokenizers[i])

\* once patched, a further application of the patch changes nothing
PatchIdempotent == [][Patched => tokenizer' = tokenizer]_vars

\* C10 as claimed: after the patch every Metaspace of the active pre-tokenizer,
\* nested anywhere inside a Sequence, prepends First; other members keep kind
\* and position; a second application changes nothing.
C10_Claimed_EveryNestedMetaspaceFirst ==
    /\ [](Patched => AllMetaspaceFirst(Active) /\ ShapeKept)
    /\ PatchIdempotent

\* the Metaspace members the patch reaches: the pre-tokenizer itself and the
\* direct members of a top-level Sequence
DirectMetaspaceFirst ==
    /\ Active.kind = "Metaspace" => IsFirst(Active)
    /\ Active.kind = "Sequence" =>
          \A i \in 1..Len(Active.pretokenizers) :
              Active.pretokenizers[i].kind = "Metaspace"
                  => IsFirst(Active.pretokenizers[i])

\* C10 amended: after the patch the pre-tokenizer itself, if a Metaspace, and
\* every Metaspace that is a direct member of a top-level Sequence prepend
\* First; every other member, a nested Sequence with its own members included,
\* is left as loaded; a second application changes nothing.
C10_DirectMetaspaceFirstIdempotent ==
    /\ [](Patched => DirectMetaspaceFirst /\ ShapeKept)
    /\ PatchIdempotent

\* C10 witness: patched twice, a Sequence that was loaded with a direct
\* Metaspace member and a nested Sequence, neither prepending First
C10_Witness_PatchedTwice ==
    /\ patches = 2
    /\ Loaded.kind = "Sequence"
    /\ \E i, j \in 1..Len(Loaded.pretokenizers) :
          /\ Loaded.pretokenizers[i].kind = "Metaspace"
          /\ ~IsFirst(Loaded.pretokenizers[i])
          /\ IsFirst(Active.pretokenizers[i])
          /\ Loaded.pretokenizers[j].kind = "Sequence"
          /\ HasMetaspaceNotFirst(Loaded.pretokenizers[j])

====
